---- MODULE Spec2Model ----
(***************************************************************************)
(* Model of lab4.py: a line-oriented interpreter for a toy blog.  Each     *)
(* input line is a command (post, comment, delete, show, find) applied to  *)
(* a document store.  The program has two store branches, selected once at *)
(* startup by MONGODB_AVAILABLE: the in-memory dictionary in_memory_db     *)
(* and the MongoDB collection db.blogs.  The model runs both branches on   *)
(* the same input lines, side by side, so that each branch can be checked  *)
(* on its own and the two can be compared.                                 *)
(*                                                                         *)
(* Python strings are modelled as sequences of one-character strings, so   *)
(* that splitting, quoting, substring search and lexicographic comparison  *)
(* are computed rather than assumed.                                       *)
(***************************************************************************)
EXTENDS Integers, Sequences, FiniteSets, TLC

(***************************************************************************)
(* Characters and Python string primitives                                 *)
(***************************************************************************)

\* The characters of the model's inputs, in ASCII order (used by Ord).
CharOrder ==
  << " ", "\"", "*", ",", ".",
     "0", "1", "2", "3", "4", "5", "6", "7", "8", "9", ":",
     "A", "B", "C", "D", "E", "F", "G", "H", "I", "J", "K", "L", "M",
     "N", "O", "P", "Q", "R", "S", "T", "U", "V", "W", "X", "Y", "Z",
     "_",
     "a", "b", "c", "d", "e", "f", "g", "h", "i", "j", "k", "l", "m",
     "n", "o", "p", "q", "r", "s", "t", "u", "v", "w", "x", "y", "z" >>

Ord(c) == CHOOSE i \in 1..Len(CharOrder) : CharOrder[i] = c

Digits == {"0", "1", "2", "3", "4", "5", "6", "7", "8", "9"}

UpperChars ==
  << "A", "B", "C", "D", "E", "F", "G", "H", "I", "J", "K", "L", "M",
     "N", "O", "P", "Q", "R", "S", "T", "U", "V", "W", "X", "Y", "Z" >>

LowerChars ==
  << "a", "b", "c", "d", "e", "f", "g", "h", "i", "j", "k", "l", "m",
     "n", "o", "p", "q", "r", "s", "t", "u", "v", "w", "x", "y", "z" >>

Range(s) == {s[i] : i \in DOMAIN s}

\* The character class [0-9a-zA-Z] of the permalink regular expression.
AlNum == Digits \cup Range(UpperChars) \cup Range(LowerChars)

\* Characters removed by str.strip() with no argument (those of the model).
Whitespace == {" "}

\* str.lower()
LowerChar(c) ==
  IF c \in Range(UpperChars)
    THEN LowerChars[CHOOSE i \in 1..Len(UpperChars) : UpperChars[i] = c]
    ELSE c

Lower(s) == [i \in 1..Len(s) |-> LowerChar(s[i])]

\* str.strip(chars): drop leading and trailing characters that are in chars.
RECURSIVE LStripChars(_, _)
LStripChars(s, chars) ==
  IF s # <<>> /\ Head(s) \in chars THEN LStripChars(Tail(s), chars) ELSE s

RECURSIVE RStripChars(_, _)
RStripChars(s, chars) ==
  IF s # <<>> /\ s[Len(s)] \in chars
    THEN RStripChars(SubSeq(s, 1, Len(s) - 1), chars)
    ELSE s

StripChars(s, chars) == RStripChars(LStripChars(s, chars), chars)

Strip(s) == StripChars(s, Whitespace)

\* Index of the first occurrence of character c in s at or after from; 0 if none.
IndexOf(s, c, from) ==
  IF \E i \in from..Len(s) : s[i] = c
    THEN CHOOSE i \in from..Len(s) : s[i] = c /\ \A j \in from..(i - 1) : s[j] # c
    ELSE 0

\* str.split(sep, maxsplit) for a one-character separator; maxsplit = -1 is
\* unlimited.
RECURSIVE Split(_, _, _)
Split(s, sep, maxsplit) ==
  LET i == IndexOf(s, sep, 1) IN
  IF maxsplit = 0 \/ i = 0
    THEN <<s>>
    ELSE <<SubSeq(s, 1, i - 1)>>
           \o Split(SubSeq(s, i + 1, Len(s)), sep,
                    IF maxsplit < 0 THEN maxsplit ELSE maxsplit - 1)

\* Python's `sub in s` for strings.
Contains(sub, s) ==
  \E i \in 0..(Len(s) - Len(sub)) : SubSeq(s, i + 1, i + Len(sub)) = sub

\* The $regex operator of the database, which receives the search term
\* unescaped.  Of the characters that occur in the lines read here, "." is
\* the wildcard and "*" the quantifier of the item before it; every other
\* one stands for itself.  A "*" with no item before it, at the start or
\* after another "*", makes the expression invalid.
ValidRegex(pattern) ==
  \A k \in DOMAIN pattern :
    pattern[k] = "*" => k > 1 /\ pattern[k - 1] # "*"

\* The pattern matches a prefix of s.
RECURSIVE RegexMatchHere(_, _)
RegexMatchHere(pattern, s) ==
  IF pattern = <<>> THEN TRUE
  ELSE IF Len(pattern) >= 2 /\ pattern[2] = "*"
    THEN \E k \in 0..Len(s) :
           /\ \A j \in 1..k : pattern[1] = "." \/ pattern[1] = s[j]
           /\ RegexMatchHere(SubSeq(pattern, 3, Len(pattern)),
                             SubSeq(s, k + 1, Len(s)))
    ELSE /\ s # <<>>
         /\ pattern[1] = "." \/ pattern[1] = s[1]
         /\ RegexMatchHere(Tail(pattern), Tail(s))

\* An unanchored search of s for a valid pattern.
RegexSearch(pattern, s) ==
  /\ ValidRegex(pattern)
  /\ \E i \in 0..Len(s) : RegexMatchHere(pattern, SubSeq(s, i + 1, Len(s)))

\* Python's s < t on strings: lexicographic by code point.
RECURSIVE StrLess(_, _)
StrLess(s, t) ==
  IF t = <<>> THEN FALSE
  ELSE IF s = <<>> THEN TRUE
  ELSE IF Head(s) = Head(t) THEN StrLess(Tail(s), Tail(t))
  ELSE Ord(Head(s)) < Ord(Head(t))

\* re.sub('[^0-9a-zA-Z]+', '_', title): inRun is TRUE inside a run of
\* characters outside the class, whose underscore has been emitted already.
RECURSIVE SubNonAlNum(_, _)
SubNonAlNum(s, inRun) ==
  IF s = <<>> THEN <<>>
  ELSE IF Head(s) \in AlNum THEN <<Head(s)>> \o SubNonAlNum(Tail(s), FALSE)
  ELSE (IF inRun THEN <<>> ELSE <<"_">>) \o SubNonAlNum(Tail(s), TRUE)

Sanitize(title) == SubNonAlNum(title, FALSE)

\* re.match(r'"([^"]*)"(.*)', t): the index in t of the quote that closes the
\* leading quoted segment, 0 when t does not start with one.
ClosingQuote(t) ==
  IF t # <<>> /\ t[1] = "\"" THEN IndexOf(t, "\"", 2) ELSE 0

\* Lines 23-25 on the stripped line t: <<match.group(1), match.group(2).strip()>>
\* when the expression matches, <<"", t>> when it does not.
QuotedPrefix(t) ==
  IF ClosingQuote(t) # 0
    THEN <<SubSeq(t, 2, ClosingQuote(t) - 1),
           Strip(SubSeq(t, ClosingQuote(t) + 1, Len(t)))>>
    ELSE <<<<>>, t>>

\* parse_quoted_string: <<content, rest>> of a leading double-quoted segment,
\* or <<"", stripped line>> when the stripped line does not start with one.
parse_quoted_string(line) == QuotedPrefix(Strip(line))

(***************************************************************************)
(* Bounds of the model                                                     *)
(***************************************************************************)

\* Largest number of documents a store may hold.
MaxDocs == 3

(***************************************************************************)
(* Documents, diagnostics and output blocks                                *)
(***************************************************************************)

kw_post == <<"p", "o", "s", "t">>
kw_comment == <<"c", "o", "m", "m", "e", "n", "t">>
kw_delete == <<"d", "e", "l", "e", "t", "e">>
kw_show == <<"s", "h", "o", "w">>
kw_find == <<"f", "i", "n", "d">>

\* dict.__setitem__: the document with key k set to v (added when absent).
SetKey(doc, k, v) == [x \in DOMAIN doc \cup {k} |-> IF x = k THEN v ELSE doc[x]]

\* f"**{doc_type} deleted**"
DeletedMarker(doc_type) ==
  <<"*", "*">> \o doc_type \o <<" ", "d", "e", "l", "e", "t", "e", "d", "*", "*">>

\* One diagnostic line on sys.stderr.
InvalidFormat(command) == <<"Error: Invalid command format", command>>
NoSuchPermalink(permalink) ==
  <<"Error: No post or comment found with permalink: ", permalink>>
UnknownCommand(command) == <<"Error: Unknown command: ", command>>

\* The effect of one handler on one branch: the store after it, what it
\* printed on stdout and stderr, and whether it died of an uncaught
\* exception.
Result(store, stdout, stderr) ==
  [store |-> store, stdout |-> stdout, stderr |-> stderr, crashed |-> FALSE]

\* sep.join(list)
RECURSIVE Join(_, _)
Join(list, sep) ==
  IF list = <<>> THEN <<>>
  ELSE IF Len(list) = 1 THEN list[1]
  ELSE list[1] \o sep \o Join(Tail(list), sep)

\* list.sort(key=timestamp, reverse=reverse): a stable sort, computed by
\* inserting the elements in their original order; equal keys keep that
\* order, also when reverse is set.
InsertByTimestamp_ties_reversed(sorted, x, reverse) ==
  LET stays(e) == IF reverse THEN StrLess(x.timestamp, e.timestamp)
                             ELSE StrLess(e.timestamp, x.timestamp)
      k == Cardinality({i \in DOMAIN sorted : stays(sorted[i])})
  IN SubSeq(sorted, 1, k) \o <<x>> \o SubSeq(sorted, k + 1, Len(sorted))
InsertByTimestamp(sorted, x, reverse) ==
  LET stays(e) == IF reverse THEN ~StrLess(e.timestamp, x.timestamp)
                             ELSE ~StrLess(x.timestamp, e.timestamp)
      k == Cardinality({i \in DOMAIN sorted : stays(sorted[i])})
  IN SubSeq(sorted, 1, k) \o <<x>> \o SubSeq(sorted, k + 1, Len(sorted))

RECURSIVE SortByTimestampFrom(_, _, _)
SortByTimestampFrom(sorted, todo, reverse) ==
  IF todo = <<>> THEN sorted
  ELSE SortByTimestampFrom(InsertByTimestamp(sorted, Head(todo), reverse),
                           Tail(todo), reverse)

SortByTimestamp(docs, reverse) == SortByTimestampFrom(<<>>, docs, reverse)

(***************************************************************************)
(* Line parsing shared by both branches                                    *)
(***************************************************************************)

\* Lines 44-60: the post document built from the parsed fields; the key
\* tags is present only when the tags field is not empty.
post_document(blogname, username, title, body, tags, timestamp) ==
  LET post == [type |-> kw_post, blogname |-> blogname, userName |-> username,
               title |-> title, body |-> body,
               permalink |-> blogname \o <<".">> \o Sanitize(title),
               timestamp |-> timestamp]
  IN IF tags # <<>>
       THEN SetKey(post, "tags", [i \in 1..Len(Split(tags, ",", -1)) |->
                                   Strip(Split(tags, ",", -1)[i])])
       ELSE post

\* Lines 40-42, from the last call back to the first:
\*   title, rest = parse_quoted_string(rest)
\*   body, rest = parse_quoted_string(rest)
\*   tags, timestamp = parse_quoted_string(rest)
post_after_body(blogname, username, title, body, tags_timestamp) ==
  post_document(blogname, username, title, body,
                tags_timestamp[1], tags_timestamp[2])

post_after_title(blogname, username, title, body_rest) ==
  post_after_body(blogname, username, title, body_rest[1],
                  parse_quoted_string(body_rest[2]))

post_after_username(blogname, username, title_rest) ==
  post_after_title(blogname, username, title_rest[1],
                   parse_quoted_string(title_rest[2]))

\* process_post, lines 31-60: whether the line has the four space-separated
\* parts the handler needs and, if so, the document it builds.
post_fields(line) ==
  LET parts == Split(line, " ", 3) IN
  IF Len(parts) < 4 THEN [ok |-> FALSE]
  ELSE [ok |-> TRUE,
        doc |-> post_after_username(parts[2], StripChars(parts[3], {"\""}),
                                    parse_quoted_string(parts[4]))]

\* Lines 105-113: the comment document; its permalink is its timestamp.
comment_document(blogname, permalink, username, comment_body, timestamp) ==
  [type |-> kw_comment, blogname |-> blogname, userName |-> username,
   body |-> comment_body, permalink |-> timestamp,
   parent_permalink |-> permalink, timestamp |-> timestamp]

\* Lines 86-87, from the last call back to the first:
\*   username, rest = parse_quoted_string(rest)
\*   comment_body, timestamp = parse_quoted_string(rest)
comment_after_username(blogname, permalink, username, body_timestamp) ==
  comment_document(blogname, permalink, username,
                   body_timestamp[1], body_timestamp[2])

comment_after_permalink(blogname, permalink, username_rest) ==
  comment_after_username(blogname, permalink, username_rest[1],
                         parse_quoted_string(username_rest[2]))

\* process_comment, lines 75-87 and 105-114: the target permalink and the
\* document the handler builds.
comment_fields(line) ==
  LET parts == Split(line, " ", 3) IN
  IF Len(parts) < 4 THEN [ok |-> FALSE]
  ELSE [ok |-> TRUE,
        permalink |-> parts[3],
        doc |-> comment_after_permalink(parts[2], parts[3],
                                        parse_quoted_string(parts[4]))]

\* process_delete, lines 128-136.
delete_fields(line) ==
  LET parts == Split(line, " ", 4) IN
  IF Len(parts) < 5 THEN [ok |-> FALSE]
  ELSE [ok |-> TRUE, blogname |-> parts[2], permalink |-> parts[3],
        username |-> parts[4], timestamp |-> parts[5]]

\* process_show, lines 216-221.
show_fields(line) ==
  LET parts == Split(line, " ", 1) IN
  IF Len(parts) < 2 THEN [ok |-> FALSE]
  ELSE [ok |-> TRUE, blogname |-> Strip(parts[2])]

\* process_find, lines 273-279.
find_fields(line) ==
  LET parts == Split(line, " ", 2) IN
  IF Len(parts) < 3 THEN [ok |-> FALSE]
  ELSE [ok |-> TRUE, blogname |-> parts[2],
        search_string |-> parse_quoted_string(parts[3])[1]]

\* main, lines 420-425, and the parsing of the handler it selects: whether
\* the stripped line is empty, which makes main skip it, the command word
\* and the fields that handler reads from the line.
ParseLine(line) ==
  LET l == Strip(line)
      command == Lower(Split(l, " ", 1)[1])
  IN [skipped |-> l = <<>>,
      command |-> command,
      fields |-> IF command = kw_post THEN post_fields(l)
                 ELSE IF command = kw_comment THEN comment_fields(l)
                 ELSE IF command = kw_delete THEN delete_fields(l)
                 ELSE IF command = kw_show THEN show_fields(l)
                 ELSE IF command = kw_find THEN find_fields(l)
                 ELSE [ok |-> FALSE]]

\* A delete that writes the post marker whatever the document's type.
MarkDeleted_post_marker(doc, username, timestamp) ==
  SetKey(SetKey(SetKey(doc, "body", DeletedMarker(kw_post)),
                "deleted_by", username),
         "deleted_at", timestamp)

\* process_delete, lines 147-155 and 163-166: the three fields a delete sets.
MarkDeleted(doc, username, timestamp) ==
  SetKey(SetKey(SetKey(doc, "body", DeletedMarker(doc.type)),
                "deleted_by", username),
         "deleted_at", timestamp)

(***************************************************************************)
(* Input lines                                                             *)
(***************************************************************************)

Quoted(s) == <<"\"">> \o s \o <<"\"">>

Words(fields) == Join(fields, <<" ">>)

PostLine(blog, user, title, body, tags, timestamp) ==
  Words(<<kw_post, blog, Quoted(user), Quoted(title), Quoted(body),
          Quoted(tags), timestamp>>)

CommentLine(blog, permalink, user, body, timestamp) ==
  Words(<<kw_comment, blog, permalink, Quoted(user), Quoted(body), timestamp>>)

DeleteLine(blog, permalink, user, timestamp) ==
  Words(<<kw_delete, blog, permalink, user, timestamp>>)

ShowLine(blog) == Words(<<kw_show, blog>>)

FindLine(blog, term) == Words(<<kw_find, blog, Quoted(term)>>)

Blog0 == <<"0">>
BlogB == <<"b">>

\* Permalinks of the posts titled "T" and "U V" of blog 0.  The blog's name
\* makes them sort before the numeric timestamps of the comments.
LinkT == <<"0", ".", "T">>
LinkUV == <<"0", ".", "U", "_", "V">>

\* Well-formed post lines.
GoodPostLines ==
  { PostLine(Blog0, <<"u">>, <<"T">>, <<"q">>, <<"x", "y", ",", " ", "z">>, <<"2">>),
    PostLine(Blog0, <<"v">>, <<"U", " ", "V">>, <<"x", "y">>, <<>>, <<"1">>) }

\* Post lines with too few fields, and with a title that is not quoted.
BadPostLines ==
  { Words(<<kw_post, Blog0, Quoted(<<"u">>)>>),
    Words(<<kw_post, Blog0, Quoted(<<"u">>), <<"T">>>>) }

\* Well-formed comment lines <<blog, target, timestamp>>: on a post, on a
\* comment, with a timestamp that repeats the target, and naming a blog
\* other than the target's.  A target is missing until it has been created.
GoodCommentLines ==
  { CommentLine(t[1], t[2], <<"w">>, <<"x", "w">>, t[3]) :
      t \in { <<Blog0, LinkT, <<"1">>>>,
              <<Blog0, LinkT, LinkT>>,
              <<Blog0, <<"1">>, <<"2">>>>,
              <<BlogB, LinkT, <<"1">>>> } }

\* A comment line with too few fields.
BadCommentLines == { Words(<<kw_comment, Blog0, LinkT>>) }

GoodDeleteLines ==
  { DeleteLine(Blog0, LinkT, <<"u">>, <<"5">>),
    DeleteLine(Blog0, LinkT, <<"w">>, <<"6">>),
    DeleteLine(Blog0, LinkUV, <<"u">>, <<"5">>),
    DeleteLine(Blog0, <<"1">>, <<"u">>, <<"5">>),
    DeleteLine(BlogB, LinkT, <<"u">>, <<"5">>) }

BadDeleteLines == { Words(<<kw_delete, Blog0, LinkT, <<"u">>>>) }

ShowLines == { ShowLine(Blog0), Words(<<<<"S", "H", "O", "W">>, BlogB>>) }

FindLines ==
  { FindLine(Blog0, <<"x">>), FindLine(Blog0, <<"w">>), FindLine(Blog0, <<".">>),
    FindLine(BlogB, <<"x">>) }

UnknownLines == { Words(<<<<"l", "i", "s", "t">>, Blog0>>) }

\* A line that is empty once stripped.
BlankLines == { <<" ", " ">> }

PostLines == GoodPostLines \cup BadPostLines
CommentLines == GoodCommentLines \cup BadCommentLines
DeleteLines == GoodDeleteLines \cup BadDeleteLines

InputLines ==
  PostLines \cup CommentLines \cup DeleteLines \cup ShowLines \cup FindLines
    \cup UnknownLines \cup BlankLines

\* The parse of every input line, computed once; Parse(line) is ParseLine(line).
ParsedInput == [l \in InputLines |-> ParseLine(l)]

Parse(line) == IF line \in InputLines THEN ParsedInput[line] ELSE ParseLine(line)

(***************************************************************************)
(* Rendering (process_show, print_comments and the blocks of process_find) *)
(***************************************************************************)

\* sys.getrecursionlimit() of the interpreter, and the part of it that is
\* not available to the nested calls of print_comments: the frames of the
\* module, of main and of the handler, and those of the calls print_comments
\* makes to print a block on an unbuffered standard output.  (A print that
\* has to flush a full buffer takes one frame more.)
RecursionLimit == 1000
FramesAround == 5

\* The deepest nested call of print_comments that can print: the call at
\* this depth prints its blocks, the next one fails at its first print().
PrintDepth == RecursionLimit - FramesAround

\* The total length of the lists f[b], b in S.
RECURSIVE SumLen(_, _)
SumLen(f, S) ==
  IF S = {} THEN 0
  ELSE LET b == CHOOSE b \in S : TRUE IN Len(f[b]) + SumLen(f, S \ {b})

\* The number of comments in comments_by_parent.
NumComments(comments_by_parent) ==
  SumLen(comments_by_parent, DOMAIN comments_by_parent)

\* A chain of k nested calls of print_comments that all have comments to
\* print starts at permalink.
RECURSIVE Reaches(_, _, _)
Reaches(permalink, comments_by_parent, k) ==
  \/ k = 0
  \/ /\ permalink \in DOMAIN comments_by_parent
     /\ \E i \in DOMAIN comments_by_parent[permalink] :
          Reaches(comments_by_parent[permalink][i].permalink,
                  comments_by_parent, k - 1)

\* The recursion of print_comments started on permalink has no end: a chain
\* of nested calls longer than the number of comments prints one comment
\* below itself.
Endless(permalink, comments_by_parent) ==
  Reaches(permalink, comments_by_parent, NumComments(comments_by_parent) + 1)

\* The mark left at the end of an output cut short by RecursionError.
RecursionError == [block |-> "RecursionError"]

\* The mark left at the end of an output cut short by the error the
\* database raises when it is sent an invalid regular expression.
OperationFailure == [block |-> "OperationFailure"]

Crashed(out) ==
  out # <<>> /\ out[Len(out)] \in {RecursionError, OperationFailure}

\* What is printed by one step of a loop and by the steps after it: an
\* uncaught exception in the first ends the loop.
Followed(first, rest) == IF Crashed(first) THEN first ELSE first \o rest

\* print(f"in {blogname}:"); print()
HeaderBlock(blogname) == [block |-> "header", blogname |-> blogname]

\* The printed block of a post: title, userName, the tags line when the
\* post has a non-empty tag list, timestamp, permalink, body or marker.
PostBlock(post) ==
  [block |-> "post",
   title |-> post.title,
   userName |-> post.userName,
   tags |-> IF "tags" \in DOMAIN post /\ post.tags # <<>>
              THEN <<Join(post.tags, <<",", " ">>)>> ELSE <<>>,
   timestamp |-> post.timestamp,
   permalink |-> post.permalink,
   body |-> IF "deleted_by" \in DOMAIN post
              THEN DeletedMarker(kw_post) ELSE post.body]

\* The printed block of a comment at indentation level indent.
CommentBlock(comment, indent) ==
  [block |-> "comment",
   indent |-> indent,
   userName |-> comment.userName,
   permalink |-> comment.permalink,
   body |-> IF "deleted_by" \in DOMAIN comment
              THEN DeletedMarker(kw_comment) ELSE comment.body]

\* The print() that closes a post.
BlankBlock == [block |-> "blank"]

\* comments_by_parent: the comments, in the order given, keyed by parent.
GroupByParent(comments) ==
  [p \in {comments[i].parent_permalink : i \in DOMAIN comments} |->
     SelectSeq(comments, LAMBDA c : c.parent_permalink = p)]

\* print_comments: the blocks printed for the comments under permalink and,
\* recursively, their replies.  depth counts the nested calls.  The call
\* returns at once when permalink has no comments; otherwise it prints, and
\* its first print() raises RecursionError below PrintDepth.
\*
\* An endless recursion is followed down to PrintDepth as the interpreter
\* follows it.  As long as more calls remain than there are comments, the
\* call that never returns is, at every level, the one on the first comment
\* of the list whose recursion has no end, and the comments before it are
\* printed with their threads complete; EndlessDescent writes these levels
\* out without nesting the evaluation as deep as the calls.  The last levels
\* before PrintDepth, where a thread that would end can be cut short too,
\* are the nested calls themselves.
RECURSIVE PrintNested(_, _, _, _)
RECURSIVE PrintCommentList(_, _, _, _)
RECURSIVE Orbit(_, _, _)
RECURSIVE DescentLevels(_, _, _, _, _)

\* The first comment of list on which the recursion has no end.
FirstEndless(list, comments_by_parent) ==
  CHOOSE i \in DOMAIN list :
    /\ Endless(list[i].permalink, comments_by_parent)
    /\ \A j \in 1..(i - 1) : ~Endless(list[j].permalink, comments_by_parent)

\* The permalink the endless recursion is called on one level below.
NextEndless(permalink, comments_by_parent) ==
  comments_by_parent[permalink]
    [FirstEndless(comments_by_parent[permalink], comments_by_parent)].permalink

\* The permalinks of the first n + 1 calls of the endless recursion.
Orbit(permalink, comments_by_parent, n) ==
  IF n = 0 THEN <<permalink>>
  ELSE <<permalink>> \o Orbit(NextEndless(permalink, comments_by_parent),
                              comments_by_parent, n - 1)

\* The length of the cycle the calls of orbit have entered: orbit has one
\* call more than there are permalinks with comments.
Period(orbit) ==
  CHOOSE k \in 1..(Len(orbit) - 1) :
    /\ orbit[Len(orbit) - k] = orbit[Len(orbit)]
    /\ \A j \in 1..(k - 1) : orbit[Len(orbit) - j] # orbit[Len(orbit)]

\* The place in orbit of the permalink of the call t levels down.
OrbitIndex(orbit, t) ==
  IF t < Len(orbit) THEN t + 1
  ELSE Len(orbit) - ((Period(orbit) - ((t + 1 - Len(orbit)) % Period(orbit)))
                       % Period(orbit))

\* What one call of the endless recursion prints before the call that does
\* not return: the comments before the first endless one with their
\* threads, and the block of that one.
DescentLevel(list, comments_by_parent, indent, depth) ==
  PrintCommentList(SubSeq(list, 1, FirstEndless(list, comments_by_parent) - 1),
                   comments_by_parent, indent, depth)
    \o <<CommentBlock(list[FirstEndless(list, comments_by_parent)], indent)>>

\* The same blocks, printed by levels further down.
Indented(blocks, by) ==
  [i \in DOMAIN blocks |-> [blocks[i] EXCEPT !.indent = @ + by]]

\* The blocks of the levels from..to of the descent, levels[i] being what
\* the call on orbit[i] prints at the top level.
DescentLevels(levels, orbit, indent, from, to) ==
  IF from > to THEN <<>>
  ELSE IF from = to
    THEN Indented(levels[OrbitIndex(orbit, from)], indent + from)
  ELSE DescentLevels(levels, orbit, indent, from, (from + to) \div 2)
         \o DescentLevels(levels, orbit, indent, (from + to) \div 2 + 1, to)

\* One block at the indentation of every level that can print it.
NestedBlocks(block) == [i \in 1..PrintDepth |-> [block EXCEPT !.indent = i]]

\* The comments the input lines make.
InputComments == { ParsedInput[l].fields.doc : l \in GoodCommentLines }

\* Their blocks, as posted and as soft-deleted, and the NestedBlocks of
\* these computed once; Nested(block) is NestedBlocks(block).
InputCommentBlocks ==
  UNION { { CommentBlock(c, 0), CommentBlock(MarkDeleted(c, <<>>, <<>>), 0) } :
          c \in InputComments }

NestedInput == [b \in InputCommentBlocks |-> NestedBlocks(b)]

Nested(block) ==
  IF block \in InputCommentBlocks THEN NestedInput[block]
  ELSE NestedBlocks(block)

\* The first n calls of the endless recursion along orbit, and the calls
\* below them.  When the recursion is that of one comment under itself with
\* no comment printed before it, the levels are that comment's block n
\* times over, each one level deeper.
DescentAlong(orbit, levels, comments_by_parent, indent, depth, n) ==
  (IF /\ orbit[2] = orbit[1]
      /\ Len(levels[1]) = 1
      /\ indent >= 1
      /\ indent + n - 1 <= PrintDepth
     THEN SubSeq(Nested(levels[1][1]), indent, indent + n - 1)
     ELSE DescentLevels(levels, orbit, indent, 0, n - 1))
    \o PrintNested(orbit[OrbitIndex(orbit, n)], comments_by_parent,
                   indent + n, depth + n)

EndlessDescentAlong(orbit, comments_by_parent, indent, depth) ==
  DescentAlong(orbit,
               [i \in DOMAIN orbit |->
                  DescentLevel(comments_by_parent[orbit[i]],
                               comments_by_parent, 0, depth)],
               comments_by_parent, indent, depth,
               PrintDepth - NumComments(comments_by_parent) - depth + 1)

EndlessDescent(permalink, comments_by_parent, indent, depth) ==
  EndlessDescentAlong(Orbit(permalink, comments_by_parent,
                            Cardinality(DOMAIN comments_by_parent)),
                      comments_by_parent, indent, depth)

\* The nested calls as the code makes them: nothing for a permalink without
\* comments, RecursionError below PrintDepth, else the loop over the comments.
PrintNested(permalink, comments_by_parent, indent, depth) ==
  IF permalink \notin DOMAIN comments_by_parent THEN <<>>
  ELSE IF depth > PrintDepth THEN <<RecursionError>>
  ELSE PrintCommentList(comments_by_parent[permalink], comments_by_parent,
                        indent, depth)

PrintCommentList(list, comments_by_parent, indent, depth) ==
  IF list = <<>> THEN <<>>
  ELSE Followed(<<CommentBlock(Head(list), indent)>>
                  \o PrintNested(Head(list).permalink, comments_by_parent,
                                 indent + 1, depth + 1),
                PrintCommentList(Tail(list), comments_by_parent, indent, depth))

\* A call with more levels below it than there are comments either is
\* endless, and is then written out by EndlessDescent, or has only calls
\* below it that return; a call nearer to PrintDepth is the nested calls.
print_comments(permalink, comments_by_parent, indent, depth) ==
  IF /\ permalink \in DOMAIN comments_by_parent
     /\ depth + NumComments(comments_by_parent) <= PrintDepth
     /\ Endless(permalink, comments_by_parent)
    THEN EndlessDescent(permalink, comments_by_parent, indent, depth)
    ELSE PrintNested(permalink, comments_by_parent, indent, depth)

\* The loop of process_show over the posts, lines 228-246.
RECURSIVE ShowPosts(_, _)
ShowPosts(posts, comments_by_parent) ==
  IF posts = <<>> THEN <<>>
  ELSE Followed(<<PostBlock(Head(posts))>>
                  \o print_comments(Head(posts).permalink, comments_by_parent, 1, 1),
                <<BlankBlock>> \o ShowPosts(Tail(posts), comments_by_parent))

\* What a handler that printed out leaves behind: the output up to the
\* uncaught exception, if any, and the store untouched.
Printed(store, out) ==
  IF Crashed(out)
    THEN [store |-> store, stdout |-> SubSeq(out, 1, Len(out) - 1),
          stderr |-> <<>>, crashed |-> TRUE]
    ELSE Result(store, out, <<>>)

(***************************************************************************)
(* The in-memory branch: in_memory_db["blogs"] maps a blog name to the     *)
(* list of its documents in insertion order.                               *)
(***************************************************************************)

\* in_memory_db["blogs"][blogname].append(doc), creating the list if absent.
AppendDoc(blogs, blogname, doc) ==
  IF blogname \in DOMAIN blogs
    THEN [blogs EXCEPT ![blogname] = Append(@, doc)]
    ELSE blogs @@ (blogname :> <<doc>>)

\* Index in the named blog of the first document with the permalink; 0 when
\* the blog or the permalink is absent (lines 95-99 and 160-162).
FindInBlog(blogs, blogname, permalink) ==
  IF blogname \in DOMAIN blogs
       /\ \E i \in DOMAIN blogs[blogname] : blogs[blogname][i].permalink = permalink
    THEN CHOOSE i \in DOMAIN blogs[blogname] :
           /\ blogs[blogname][i].permalink = permalink
           /\ \A j \in 1..(i - 1) : blogs[blogname][j].permalink # permalink
    ELSE 0

\* Each handler is given f, the fields it reads from its line (post_fields,
\* comment_fields, delete_fields, show_fields, find_fields), and the store.
process_post_mem(f, blogs) ==
  IF ~f.ok
    THEN Result(blogs, <<>>, <<InvalidFormat(kw_post)>>)
    ELSE Result(AppendDoc(blogs, f.doc.blogname, f.doc), <<>>, <<>>)

\* process_comment without the check of lines 101-103.
process_comment_mem_unchecked(f, blogs) ==
  IF ~f.ok
    THEN Result(blogs, <<>>, <<InvalidFormat(kw_comment)>>)
    ELSE Result(AppendDoc(blogs, f.doc.blogname, f.doc), <<>>,
                IF FindInBlog(blogs, f.doc.blogname, f.permalink) = 0
                  THEN <<NoSuchPermalink(f.permalink)>> ELSE <<>>)

process_comment_mem(f, blogs) ==
  IF ~f.ok
    THEN Result(blogs, <<>>, <<InvalidFormat(kw_comment)>>)
    ELSE IF FindInBlog(blogs, f.doc.blogname, f.permalink) = 0
      THEN Result(blogs, <<>>, <<NoSuchPermalink(f.permalink)>>)
      ELSE Result(AppendDoc(blogs, f.doc.blogname, f.doc), <<>>, <<>>)

\* A delete that leaves a document alone once it is soft-deleted.
process_delete_mem_once(f, blogs) ==
  IF ~f.ok
    THEN Result(blogs, <<>>, <<InvalidFormat(kw_delete)>>)
    ELSE LET i == FindInBlog(blogs, f.blogname, f.permalink)
         IN IF i = 0
              THEN Result(blogs, <<>>, <<NoSuchPermalink(f.permalink)>>)
              ELSE IF "deleted_by" \in DOMAIN blogs[f.blogname][i]
                THEN Result(blogs, <<>>, <<>>)
                ELSE Result([blogs EXCEPT ![f.blogname][i] =
                                     MarkDeleted(@, f.username, f.timestamp)],
                            <<>>, <<>>)

process_delete_mem(f, blogs) ==
  IF ~f.ok
    THEN Result(blogs, <<>>, <<InvalidFormat(kw_delete)>>)
    ELSE LET i == FindInBlog(blogs, f.blogname, f.permalink)
         IN IF i = 0
              THEN Result(blogs, <<>>, <<NoSuchPermalink(f.permalink)>>)
              ELSE Result([blogs EXCEPT ![f.blogname][i] =
                                   MarkDeleted(@, f.username, f.timestamp)],
                          <<>>, <<>>)

get_posts_and_comments_mem_newest_first(blogname, blogs) ==
  IF blogname \notin DOMAIN blogs
    THEN [posts |-> <<>>, comments_by_parent |-> <<>>]
    ELSE LET posts == SelectSeq(blogs[blogname], LAMBDA d : d.type = kw_post)
             comments == SelectSeq(blogs[blogname], LAMBDA d : d.type = kw_comment)
         IN [posts |-> SortByTimestamp(posts, TRUE),
             comments_by_parent |-> GroupByParent(SortByTimestamp(comments, TRUE))]
get_posts_and_comments_mem(blogname, blogs) ==
  IF blogname \notin DOMAIN blogs
    THEN [posts |-> <<>>, comments_by_parent |-> <<>>]
    ELSE LET posts == SelectSeq(blogs[blogname], LAMBDA d : d.type = kw_post)
             comments == SelectSeq(blogs[blogname], LAMBDA d : d.type = kw_comment)
         IN [posts |-> SortByTimestamp(posts, TRUE),
             comments_by_parent |-> GroupByParent(SortByTimestamp(comments, FALSE))]

process_show_mem(f, blogs) ==
  IF ~f.ok
    THEN Result(blogs, <<>>, <<InvalidFormat(kw_show)>>)
    ELSE LET pc == get_posts_and_comments_mem(f.blogname, blogs)
         IN Printed(blogs, <<HeaderBlock(f.blogname)>>
                             \o ShowPosts(pc.posts, pc.comments_by_parent))

\* Lines 353-358: the term occurs in the post's body or in one of its tags.
FoundInPostMem(search_string, post) ==
  \/ Contains(search_string, post.body)
  \/ /\ "tags" \in DOMAIN post
     /\ \E i \in DOMAIN post.tags : Contains(search_string, post.tags[i])

\* Lines 348-398: the loop of the in-memory find over the posts.
RECURSIVE FindPostsMem(_, _, _)
FindPostsMem(posts, comments_by_parent, search_string) ==
  IF posts = <<>> THEN <<>>
  ELSE LET post == Head(posts)
           matching_comments ==
             IF post.permalink \in DOMAIN comments_by_parent
               THEN SelectSeq(comments_by_parent[post.permalink],
                              LAMBDA c : Contains(search_string, c.body))
               ELSE <<>>
           shown ==
             IF FoundInPostMem(search_string, post)
               THEN <<PostBlock(post)>>
                      \o [i \in 1..Len(matching_comments) |->
                            CommentBlock(matching_comments[i], 0)]
                      \o <<BlankBlock>>
               ELSE <<>>
       IN shown \o FindPostsMem(Tail(posts), comments_by_parent, search_string)

process_find_mem_creating(f, blogs) ==
  IF ~f.ok
    THEN Result(blogs, <<>>, <<InvalidFormat(kw_find)>>)
    ELSE LET pc == get_posts_and_comments_mem(f.blogname, blogs)
         IN Result([b \in DOMAIN blogs \cup {f.blogname} |->
                      IF b \in DOMAIN blogs THEN blogs[b] ELSE <<>>],
                   <<HeaderBlock(f.blogname)>>
                     \o IF f.blogname \notin DOMAIN blogs THEN <<>>
                        ELSE FindPostsMem(pc.posts, pc.comments_by_parent,
                                          f.search_string),
                   <<>>)
process_find_mem(f, blogs) ==
  IF ~f.ok
    THEN Result(blogs, <<>>, <<InvalidFormat(kw_find)>>)
    ELSE LET pc == get_posts_and_comments_mem(f.blogname, blogs)
         IN Result(blogs,
                   <<HeaderBlock(f.blogname)>>
                     \o IF f.blogname \notin DOMAIN blogs THEN <<>>
                        ELSE FindPostsMem(pc.posts, pc.comments_by_parent,
                                          f.search_string),
                   <<>>)

(***************************************************************************)
(* The database branch: db.blogs is one collection holding the documents   *)
(* of every blog, in insertion (natural) order.  find_one and update_one   *)
(* act on the first document that matches; a sort keeps documents with     *)
(* equal keys in natural order.                                            *)
(***************************************************************************)

\* db.blogs.find_one({"permalink": permalink}): index of the first match, 0
\* when there is none.
FindOne(coll, permalink) ==
  IF \E i \in DOMAIN coll : coll[i].permalink = permalink
    THEN CHOOSE i \in DOMAIN coll :
           /\ coll[i].permalink = permalink
           /\ \A j \in 1..(i - 1) : coll[j].permalink # permalink
    ELSE 0

process_post_db(f, coll) ==
  IF ~f.ok
    THEN Result(coll, <<>>, <<InvalidFormat(kw_post)>>)
    ELSE Result(Append(coll, f.doc), <<>>, <<>>)

process_comment_db(f, coll) ==
  IF ~f.ok
    THEN Result(coll, <<>>, <<InvalidFormat(kw_comment)>>)
    ELSE IF FindOne(coll, f.permalink) = 0
      THEN Result(coll, <<>>, <<NoSuchPermalink(f.permalink)>>)
      ELSE Result(Append(coll, f.doc), <<>>, <<>>)

process_delete_db(f, coll) ==
  IF ~f.ok
    THEN Result(coll, <<>>, <<InvalidFormat(kw_delete)>>)
    ELSE LET i == FindOne(coll, f.permalink)
         IN IF i = 0
              THEN Result(coll, <<>>, <<NoSuchPermalink(f.permalink)>>)
              ELSE Result([coll EXCEPT ![i] =
                                  MarkDeleted(@, f.username, f.timestamp)],
                          <<>>, <<>>)

\* find(...).sort("timestamp", direction) of the server: the documents in
\* descending (reverse) or ascending order of timestamp.  The query gives
\* no further sort key, so that the server may return documents with equal
\* timestamps in any order, and in another order on the next query: every
\* such order is an outcome.
Reordered(docs, p) == [i \in DOMAIN docs |-> docs[p[i]]]

\* No two different documents of docs have the same timestamp: the order
\* of the sorted documents is then the same whatever the server does.
NoTie(docs) ==
  \A i, j \in DOMAIN docs :
    docs[i].timestamp = docs[j].timestamp => docs[i] = docs[j]

ServerSort(docs, reverse) ==
  IF NoTie(docs) THEN { SortByTimestamp(docs, reverse) }
  ELSE { SortByTimestamp(Reordered(docs, p), reverse) :
           p \in Permutations(DOMAIN docs) }

\* get_posts_and_comments, lines 175-190: the outcomes of the two sorted
\* queries, the comments grouped by parent in the order returned.
get_posts_and_comments_db(blogname, coll) ==
  { [posts |-> posts, comments_by_parent |-> GroupByParent(comments)] :
      posts \in ServerSort(SelectSeq(coll, LAMBDA d : /\ d.blogname = blogname
                                                      /\ d.type = kw_post),
                           TRUE),
      comments \in ServerSort(SelectSeq(coll, LAMBDA d : /\ d.blogname = blogname
                                                         /\ d.type = kw_comment),
                              FALSE) }

\* process_show with the database: one result for each outcome of the
\* queries.
process_show_db(f, coll) ==
  IF ~f.ok
    THEN { Result(coll, <<>>, <<InvalidFormat(kw_show)>>) }
    ELSE { Printed(coll, <<HeaderBlock(f.blogname)>>
                           \o ShowPosts(pc.posts, pc.comments_by_parent)) :
           pc \in get_posts_and_comments_db(f.blogname, coll) }

\* The query of lines 286-292: the document belongs to the blog and its
\* body matches the term as a regular expression or its tag list has an
\* element equal to the term.
MatchesQueryDb(search_string, blogname, doc) ==
  /\ doc.blogname = blogname
  /\ \/ RegexSearch(search_string, doc.body)
     \/ /\ "tags" \in DOMAIN doc
        /\ \E i \in DOMAIN doc.tags : doc.tags[i] = search_string

\* The block of a comment that the database find lists on its own,
\* lines 329-339.
StandaloneCommentBlock(comment) ==
  [block |-> "standalone comment",
   userName |-> comment.userName,
   permalink |-> comment.permalink,
   body |-> IF "deleted_by" \in DOMAIN comment
              THEN DeletedMarker(kw_comment) ELSE comment.body]

\* Lines 313-326: the outputs a result of type post can give, one for each
\* order in which the query for its matching comments can return them.
FindPostDb(doc, coll, search_string) ==
  { <<PostBlock(doc)>>
      \o print_comments(doc.permalink, GroupByParent(matching_comments), 1, 1) :
    matching_comments \in
      ServerSort(SelectSeq(coll, LAMBDA c :
                   /\ c.type = kw_comment
                   /\ c.parent_permalink = doc.permalink
                   /\ RegexSearch(search_string, c.body)),
                 FALSE) }

\* What the loop prints for one result.
FindResultDb(doc, coll, search_string) ==
  IF doc.type = kw_post THEN FindPostDb(doc, coll, search_string)
  ELSE { <<StandaloneCommentBlock(doc)>> }

\* Lines 296-339: the loop of the database find over the query's results,
\* as the set of the outputs it can give.
RECURSIVE FindResultsDb(_, _, _)
FindResultsDb(results, coll, search_string) ==
  IF results = <<>> THEN { <<>> }
  ELSE UNION { IF Crashed(first) THEN { first }
               ELSE { first \o <<BlankBlock>> \o rest :
                      rest \in FindResultsDb(Tail(results), coll, search_string) } :
               first \in FindResultDb(Head(results), coll, search_string) }

\* process_find with the database: one result for each outcome of the
\* queries.
process_find_db(f, coll) ==
  IF ~f.ok
    THEN { Result(coll, <<>>, <<InvalidFormat(kw_find)>>) }
    ELSE IF ~ValidRegex(f.search_string)
      THEN { Printed(coll, <<HeaderBlock(f.blogname), OperationFailure>>) }
    ELSE { Printed(coll, <<HeaderBlock(f.blogname)>> \o out) :
           out \in UNION { FindResultsDb(results, coll, f.search_string) :
                           results \in ServerSort(
                             SelectSeq(coll, LAMBDA d :
                               MatchesQueryDb(f.search_string, f.blogname, d)),
                             TRUE) } }

(***************************************************************************)
(* main: the dispatch on the lower-cased first word of the stripped line   *)
(***************************************************************************)

\* Lines 421-441: nothing for a line that is empty once stripped, else the
\* handler selected by the command word of the parsed line p, applied to
\* the fields it reads from the line.
DispatchMem(p, blogs) ==
  IF p.skipped THEN Result(blogs, <<>>, <<>>)
  ELSE IF p.command = kw_post THEN process_post_mem(p.fields, blogs)
  ELSE IF p.command = kw_comment THEN process_comment_mem(p.fields, blogs)
  ELSE IF p.command = kw_delete THEN process_delete_mem(p.fields, blogs)
  ELSE IF p.command = kw_show THEN process_show_mem(p.fields, blogs)
  ELSE IF p.command = kw_find THEN process_find_mem(p.fields, blogs)
  ELSE Result(blogs, <<>>, <<UnknownCommand(p.command)>>)

\* The same with the database, as the set of the results the line can
\* have: one, except for a show or a find whose queries can return their
\* documents in more than one order.
DispatchDb(p, coll) ==
  IF p.skipped THEN { Result(coll, <<>>, <<>>) }
  ELSE IF p.command = kw_post THEN { process_post_db(p.fields, coll) }
  ELSE IF p.command = kw_comment THEN { process_comment_db(p.fields, coll) }
  ELSE IF p.command = kw_delete THEN { process_delete_db(p.fields, coll) }
  ELSE IF p.command = kw_show THEN process_show_db(p.fields, coll)
  ELSE IF p.command = kw_find THEN process_find_db(p.fields, coll)
  ELSE { Result(coll, <<>>, <<UnknownCommand(p.command)>>) }

\* One iteration of the loop of main on a line, in each branch.
MainMem(line, blogs) == DispatchMem(Parse(line), blogs)

MainDb(line, coll) == DispatchDb(Parse(line), coll)

(***************************************************************************)
(* State machine                                                           *)
(***************************************************************************)

VARIABLES
  current_line,   \* the input line read last
  in_memory_db,   \* in_memory_db["blogs"] of the in-memory branch
  mem_io,         \* what the in-memory branch did with the last line it read
  db_blogs,       \* the collection db.blogs of the database branch
  db_io           \* what the database branch did with the last line it read

vars == <<current_line, in_memory_db, mem_io, db_blogs, db_io>>

\* What a branch did with the last line it processed: the line, its command
\* word and the fields its handler read from it, the store the handler
\* found, its output on stdout and stderr, and whether it ended the run with
\* an uncaught exception.
Io(l, p, before, r) ==
  [line |-> l, command |-> p.command, fields |-> p.fields, before |-> before,
   stdout |-> r.stdout, stderr |-> r.stderr, crashed |-> r.crashed]

\* The record of a branch whose run has ended: the process is gone, so that
\* no line is read, no command is run and nothing is printed.
Ended(store) ==
  [line |-> <<>>, command |-> <<>>, fields |-> [ok |-> FALSE], before |-> store,
   stdout |-> <<>>, stderr |-> <<>>, crashed |-> TRUE]

MemDocs == UNION { Range(in_memory_db[b]) : b \in DOMAIN in_memory_db }

MemCount == SumLen(in_memory_db, DOMAIN in_memory_db)

Init ==
  /\ current_line = <<>>
  /\ in_memory_db = <<>>
  /\ mem_io = Io(<<>>, [command |-> <<>>, fields |-> [ok |-> FALSE]], <<>>,
                 Result(<<>>, <<>>, <<>>))
  /\ db_blogs = <<>>
  /\ db_io = Io(<<>>, [command |-> <<>>, fields |-> [ok |-> FALSE]], <<>>,
                 Result(<<>>, <<>>, <<>>))

\* One iteration of the loop of main on line l, in both branches.  A branch
\* whose run has ended with an uncaught exception reads no further line: its
\* store stays as it was and its record is that of a run that has ended.
Step(l) ==
  /\ current_line' = l
  /\ IF mem_io.crashed
       THEN UNCHANGED in_memory_db /\ mem_io' = Ended(in_memory_db)
       ELSE \E r \in {MainMem(l, in_memory_db)} :
              in_memory_db' = r.store /\ mem_io' = Io(l, Parse(l), in_memory_db, r)
  /\ IF db_io.crashed
       THEN UNCHANGED db_blogs /\ db_io' = Ended(db_blogs)
       ELSE \E r \in MainDb(l, db_blogs) :
              db_blogs' = r.store /\ db_io' = Io(l, Parse(l), db_blogs, r)

Running == ~mem_io.crashed \/ ~db_io.crashed

process_post ==
  /\ Running
  /\ MemCount < MaxDocs /\ Len(db_blogs) < MaxDocs
  /\ \E l \in PostLines : Step(l)

process_comment ==
  /\ Running
  /\ MemCount < MaxDocs /\ Len(db_blogs) < MaxDocs
  /\ \E l \in CommentLines : Step(l)

process_delete == Running /\ \E l \in DeleteLines : Step(l)

process_show == Running /\ \E l \in ShowLines : Step(l)

process_find == Running /\ \E l \in FindLines : Step(l)

unknown_command == Running /\ \E l \in UnknownLines : Step(l)

\* Lines 421-422: main skips a blank line.
skip_blank_line == Running /\ \E l \in BlankLines : Step(l)

Next ==
  \/ process_post
  \/ process_comment
  \/ process_delete
  \/ process_show
  \/ process_find
  \/ unknown_command
  \/ skip_blank_line

Spec == Init /\ [][Next]_vars

(***************************************************************************)
(* Properties                                                              *)
(***************************************************************************)

\* The parsed fields of the line a branch processed last.
MemFields == mem_io.fields
DbFields == db_io.fields

\* The last line a branch processed was a well-formed command of this kind.
MemDid(command) == mem_io.command = command /\ mem_io.fields.ok
DbDid(command) == db_io.command = command /\ db_io.fields.ok

\* The documents of a blog, in insertion order.
BlogDocsMem(blogs, blogname) ==
  IF blogname \in DOMAIN blogs THEN blogs[blogname] ELSE <<>>

BlogDocsDb(coll, blogname) == SelectSeq(coll, LAMBDA d : d.blogname = blogname)

HasPermalink(docs, permalink) ==
  \E i \in DOMAIN docs : docs[i].permalink = permalink

IsFirstWith(docs, i, permalink) ==
  /\ docs[i].permalink = permalink
  /\ \A j \in 1..(i - 1) : docs[j].permalink # permalink

PostDeletedText ==
  <<"*", "*", "p", "o", "s", "t", " ", "d", "e", "l", "e", "t", "e", "d", "*", "*">>

CommentDeletedText ==
  <<"*", "*", "c", "o", "m", "m", "e", "n", "t", " ",
    "d", "e", "l", "e", "t", "e", "d", "*", "*">>

\* C1: a comment command whose target permalink matches no document (in the
\* in-memory branch: no document of the named blog) leaves the store as it
\* was, prints nothing and emits exactly one diagnostic line.
C1_CommentOnMissingPermalinkRejected ==
  /\ ( /\ MemDid(kw_comment)
       /\ ~HasPermalink(BlogDocsMem(mem_io.before, MemFields.doc.blogname),
                        MemFields.permalink) )
       => /\ in_memory_db = mem_io.before
          /\ Len(mem_io.stderr) = 1
          /\ mem_io.stdout = <<>>
  /\ ( DbDid(kw_comment) /\ ~HasPermalink(db_io.before, DbFields.permalink) )
       => /\ db_blogs = db_io.before
          /\ Len(db_io.stderr) = 1
          /\ db_io.stdout = <<>>

\* A comment on a permalink that a non-empty store does not hold has been
\* processed, by both branches.
C1_Witness ==
  /\ MemDid(kw_comment)
  /\ mem_io.before # <<>>
  /\ ~HasPermalink(BlogDocsMem(mem_io.before, MemFields.doc.blogname),
                   MemFields.permalink)
  /\ DbDid(kw_comment)
  /\ db_io.before # <<>>
  /\ ~HasPermalink(db_io.before, DbFields.permalink)

\* after is doc soft-deleted by the fields of a delete command: only body,
\* deleted_by and deleted_at differ, body is the marker of doc's kind.
SoftDeleted(doc, after, fields) ==
  /\ DOMAIN after = DOMAIN doc \cup {"deleted_by", "deleted_at"}
  /\ \A k \in DOMAIN doc \ {"body", "deleted_by", "deleted_at"} : after[k] = doc[k]
  /\ after.body = IF doc.type = kw_post THEN PostDeletedText ELSE CommentDeletedText
  /\ after.deleted_by = fields.username
  /\ after.deleted_at = fields.timestamp

\* The frame of a delete on a list of documents: the first document with the
\* permalink, if any, is soft-deleted and every other document is untouched.
DeleteFrame(before, after, fields) ==
  /\ Len(after) = Len(before)
  /\ \A i \in DOMAIN before :
       IF IsFirstWith(before, i, fields.permalink)
         THEN SoftDeleted(before[i], after[i], fields)
         ELSE after[i] = before[i]

\* C2: a delete on an existing permalink changes, in the targeted document,
\* only body (to the marker of the document's kind), deleted_by and
\* deleted_at, and changes no other document of the store.
C2_DeleteChangesOnlyMarkerFields ==
  /\ MemDid(kw_delete) =>
       /\ DOMAIN in_memory_db = DOMAIN mem_io.before
       /\ \A b \in DOMAIN mem_io.before :
            IF b = MemFields.blogname
              THEN DeleteFrame(mem_io.before[b], in_memory_db[b], MemFields)
              ELSE in_memory_db[b] = mem_io.before[b]
  /\ DbDid(kw_delete) => DeleteFrame(db_io.before, db_blogs, DbFields)

\* A delete has soft-deleted a comment that was not deleted before, in the
\* in-memory branch, in a blog that also holds other documents.
C2_Witness ==
  /\ MemDid(kw_delete)
  /\ MemFields.blogname \in DOMAIN mem_io.before
  /\ \E i \in DOMAIN mem_io.before[MemFields.blogname] :
       LET doc == mem_io.before[MemFields.blogname][i] IN
       /\ IsFirstWith(mem_io.before[MemFields.blogname], i, MemFields.permalink)
       /\ doc.type = kw_comment
       /\ "deleted_by" \notin DOMAIN doc
       /\ in_memory_db[MemFields.blogname][i].body = CommentDeletedText
       /\ Len(mem_io.before[MemFields.blogname]) > 1

(***************************************************************************)
(* Rendering properties shared by the claims about show and find           *)
(***************************************************************************)

\* The last line a branch processed was a well-formed show, or find.
ShowDone(io) == io.command = kw_show /\ io.fields.ok
FindDone(io) == io.command = kw_find /\ io.fields.ok

\* A printed block of a post or of a threaded comment, and its nesting
\* level: 0 for a post, the indentation level for a comment.
IsDocBlock(b) == b.block \in {"post", "comment"}
Depth(b) == IF b.block = "post" THEN 0 ELSE b.indent

\* out renders comment c directly below a block whose permalink is c's
\* target: one level deeper, inside that block's thread.
RenderedAsDirectChild(out, c) ==
  \E i \in DOMAIN out : \E j \in (i + 1)..Len(out) :
    /\ IsDocBlock(out[i])
    /\ out[i].permalink = c.parent_permalink
    /\ out[j] = CommentBlock(c, Depth(out[i]) + 1)
    /\ \A k \in (i + 1)..(j - 1) :
         out[k].block = "comment" /\ out[k].indent > Depth(out[i])

\* C3: a show of any blog terminates, whatever comments the store holds: the
\* run of neither branch ends inside a show.
C3_ShowTerminates ==
  /\ mem_io.command = kw_show => ~mem_io.crashed
  /\ db_io.command = kw_show => ~db_io.crashed

\* C4: the two branches are observationally equivalent: after every line
\* they have emitted the same diagnostics, printed the same output and hold
\* the same documents.
C4_BranchesEquivalent ==
  /\ mem_io.stderr = db_io.stderr
  /\ mem_io.stdout = db_io.stdout
  /\ mem_io.crashed = db_io.crashed
  /\ MemDocs = Range(db_blogs)

\* The comment a branch has just inserted for the fields of its command:
\* the store grew by one document, whose permalink is its timestamp and
\* whose parent is the target.
InsertedComment(before, after, fields) ==
  /\ Len(after) = Len(before) + 1
  /\ after[Len(after)].type = kw_comment
  /\ after[Len(after)].permalink = after[Len(after)].timestamp
  /\ after[Len(after)].timestamp = fields.doc.timestamp
  /\ after[Len(after)].parent_permalink = fields.permalink

\* Every comment among docs, the documents of the blog shown, is rendered
\* by out directly below its target.
CommentsRenderedUnderParents(docs, out) ==
  \A i \in DOMAIN docs :
    docs[i].type = kw_comment =>
      /\ docs[i].permalink = docs[i].timestamp
      /\ RenderedAsDirectChild(out, docs[i])

\* C5: a well-formed comment whose target exists inserts a comment whose
\* permalink is its timestamp and whose parent is the target, and every
\* later show of the comment's blog renders it directly below its target.
C5_CommentRenderedUnderParent ==
  /\ ( /\ MemDid(kw_comment)
       /\ HasPermalink(BlogDocsMem(mem_io.before, MemFields.doc.blogname),
                       MemFields.permalink) )
       => InsertedComment(BlogDocsMem(mem_io.before, MemFields.doc.blogname),
                          BlogDocsMem(in_memory_db, MemFields.doc.blogname),
                          MemFields)
  /\ ( DbDid(kw_comment) /\ HasPermalink(db_io.before, DbFields.permalink) )
       => InsertedComment(db_io.before, db_blogs, DbFields)
  /\ ShowDone(mem_io) =>
       CommentsRenderedUnderParents(BlogDocsMem(in_memory_db, MemFields.blogname),
                                    mem_io.stdout)
  /\ ShowDone(db_io) =>
       CommentsRenderedUnderParents(BlogDocsDb(db_blogs, DbFields.blogname),
                                    db_io.stdout)

\* rest starts with n double-quoted segments, one after the other.
RECURSIVE LeadingQuoted(_, _)
LeadingQuoted(rest, n) ==
  \/ n = 0
  \/ /\ ClosingQuote(Strip(rest)) # 0
     /\ LeadingQuoted(QuotedPrefix(Strip(rest))[2], n - 1)

\* The malformed post and comment lines of the input: too few fields, or a
\* quoted segment (title, body, tags; user name, body) that is missing.
MalformedPostLines ==
  { l \in PostLines :
      \/ Len(Split(l, " ", 3)) < 4
      \/ ~LeadingQuoted(Split(l, " ", 3)[4], 3) }

MalformedCommentLines ==
  { l \in CommentLines :
      \/ Len(Split(l, " ", 3)) < 4
      \/ ~LeadingQuoted(Split(l, " ", 3)[4], 2) }

\* C6: a malformed post or comment line is skipped: the store is left as it
\* was, so that no document with missing or empty fields enters it, and
\* the line is reported on the diagnostic stream.
C6_MalformedLineSkipped ==
  /\ mem_io.line \in MalformedPostLines \cup MalformedCommentLines
       => in_memory_db = mem_io.before /\ mem_io.stderr # <<>>
  /\ db_io.line \in MalformedPostLines \cup MalformedCommentLines
       => db_blogs = db_io.before /\ db_io.stderr # <<>>

\* after still holds every document of before, at its place.
DocumentsKept(before, after) ==
  /\ Len(after) >= Len(before)
  /\ \A i \in DOMAIN before :
       /\ after[i].type = before[i].type
       /\ after[i].permalink = before[i].permalink

\* out renders every soft-deleted document among docs, the documents of the
\* blog shown, with the marker as its body and, after it and one level
\* deeper, every comment of the blog that targets it.
DeletedStillRendered(docs, out) ==
  \A i \in DOMAIN docs :
    "deleted_by" \in DOMAIN docs[i] =>
      \E k \in DOMAIN out :
        /\ IsDocBlock(out[k])
        /\ out[k] = IF docs[i].type = kw_post
                      THEN PostBlock(docs[i])
                      ELSE CommentBlock(docs[i], Depth(out[k]))
        /\ out[k].body = IF docs[i].type = kw_post
                           THEN PostDeletedText ELSE CommentDeletedText
        /\ \A j \in DOMAIN docs :
             ( docs[j].type = kw_comment
               /\ docs[j].parent_permalink = docs[i].permalink )
               => \E m \in (k + 1)..Len(out) :
                    out[m] = CommentBlock(docs[j], Depth(out[k]) + 1)

\* C7: no command removes a document, and every show of a blog renders each
\* of its soft-deleted documents, with the marker as body, together with
\* the comments nested beneath it.
C7_DeletedDocumentStaysVisible ==
  /\ \A b \in DOMAIN mem_io.before :
       /\ b \in DOMAIN in_memory_db
       /\ DocumentsKept(mem_io.before[b], in_memory_db[b])
  /\ DocumentsKept(db_io.before, db_blogs)
  /\ ShowDone(mem_io) =>
       DeletedStillRendered(BlogDocsMem(in_memory_db, MemFields.blogname),
                            mem_io.stdout)
  /\ ShowDone(db_io) =>
       DeletedStillRendered(BlogDocsDb(db_blogs, DbFields.blogname),
                            db_io.stdout)

\* The delete with these fields targets, among docs, a document that is
\* soft-deleted already.
TargetsDeleted(docs, fields) ==
  \E i \in DOMAIN docs :
    /\ IsFirstWith(docs, i, fields.permalink)
    /\ "deleted_by" \in DOMAIN docs[i]

\* C8, as stated: a delete that targets a document soft-deleted already is
\* a no-op on the store: body, deleted_by and deleted_at keep the values
\* the first delete wrote.
C8_SecondDeleteIsNoOp ==
  /\ ( MemDid(kw_delete)
       /\ TargetsDeleted(BlogDocsMem(mem_io.before, MemFields.blogname), MemFields) )
       => in_memory_db = mem_io.before
  /\ ( DbDid(kw_delete) /\ TargetsDeleted(db_io.before, DbFields) )
       => db_blogs = db_io.before

\* The second delete of a document: the body keeps the marker, deleted_by
\* and deleted_at take the values of this command, and nothing else changes,
\* in this document or in any other.
Redeleted(before, after, fields) ==
  /\ Len(after) = Len(before)
  /\ \A i \in DOMAIN before :
       IF IsFirstWith(before, i, fields.permalink)
         THEN /\ DOMAIN after[i] = DOMAIN before[i]
              /\ \A k \in DOMAIN before[i] \ {"deleted_by", "deleted_at"} :
                   after[i][k] = before[i][k]
              /\ after[i].deleted_by = fields.username
              /\ after[i].deleted_at = fields.timestamp
         ELSE after[i] = before[i]

\* C8, amended: a delete that targets a document soft-deleted already
\* applies the deletion again: body keeps the marker and every other field
\* its value, while deleted_by and deleted_at are overwritten with the user
\* and timestamp of this command; no other document changes.
C8_SecondDeleteOverwritesMarkerFields ==
  /\ ( MemDid(kw_delete)
       /\ TargetsDeleted(BlogDocsMem(mem_io.before, MemFields.blogname), MemFields) )
       => /\ DOMAIN in_memory_db = DOMAIN mem_io.before
          /\ \A b \in DOMAIN mem_io.before :
               IF b = MemFields.blogname
                 THEN Redeleted(mem_io.before[b], in_memory_db[b], MemFields)
                 ELSE in_memory_db[b] = mem_io.before[b]
  /\ ( DbDid(kw_delete) /\ TargetsDeleted(db_io.before, DbFields) )
       => Redeleted(db_io.before, db_blogs, DbFields)

\* A document deleted by one user has been deleted again by another user,
\* in both branches.
C8_Witness ==
  /\ MemDid(kw_delete)
  /\ \E i \in DOMAIN BlogDocsMem(mem_io.before, MemFields.blogname) :
       /\ IsFirstWith(mem_io.before[MemFields.blogname], i, MemFields.permalink)
       /\ "deleted_by" \in DOMAIN mem_io.before[MemFields.blogname][i]
       /\ mem_io.before[MemFields.blogname][i].deleted_by # MemFields.username
       /\ in_memory_db[MemFields.blogname][i].deleted_by = MemFields.username
  /\ DbDid(kw_delete)
  /\ \E i \in DOMAIN db_io.before :
       /\ IsFirstWith(db_io.before, i, DbFields.permalink)
       /\ "deleted_by" \in DOMAIN db_io.before[i]
       /\ db_io.before[i].deleted_by # DbFields.username
       /\ db_blogs[i].deleted_by = DbFields.username

\* The term occurs in the post's current body or in one of its tags.
TermInPost(t, post) ==
  \/ Contains(t, post.body)
  \/ /\ "tags" \in DOMAIN post
     /\ \E i \in DOMAIN post.tags : Contains(t, post.tags[i])

\* out lists comment c of docs as the claim requires: inside the entry of
\* its post when that post matches the term, and as an entry of its own
\* when it does not.
ListedByFind(out, c, docs, t) ==
  IF \E p \in DOMAIN docs :
       /\ docs[p].type = kw_post
       /\ docs[p].permalink = c.parent_permalink
       /\ TermInPost(t, docs[p])
    THEN \E i \in DOMAIN out : \E j \in (i + 1)..Len(out) :
           /\ out[i].block = "post"
           /\ out[i].permalink = c.parent_permalink
           /\ out[j].block = "comment"
           /\ out[j] = CommentBlock(c, out[j].indent)
           /\ \A k \in (i + 1)..(j - 1) : out[k].block = "comment"
    ELSE \E j \in DOMAIN out : out[j] = StandaloneCommentBlock(c)

FindListsMatchingComments(docs, out, t) ==
  \A i \in DOMAIN docs :
    ( docs[i].type = kw_comment /\ Contains(t, docs[i].body) )
      => ListedByFind(out, docs[i], docs, t)

\* C9: a find with term t lists every comment of the blog whose body contains
\* t: nested under its post when the post matched, standalone otherwise.
C9_FindListsEveryMatchingComment ==
  /\ FindDone(mem_io) =>
       FindListsMatchingComments(BlogDocsMem(in_memory_db, MemFields.blogname),
                                 mem_io.stdout, MemFields.search_string)
  /\ FindDone(db_io) =>
       FindListsMatchingComments(BlogDocsDb(db_blogs, DbFields.blogname),
                                 db_io.stdout, DbFields.search_string)

\* Every post that out renders is a post of docs with the term in its body,
\* in one of its tags or in the body of a comment of the blog.
FindRendersOnlyMatches(docs, out, t) ==
  \A k \in DOMAIN out :
    out[k].block = "post" =>
      \E p \in DOMAIN docs :
        /\ docs[p].type = kw_post
        /\ out[k] = PostBlock(docs[p])
        /\ \/ TermInPost(t, docs[p])
           \/ \E c \in DOMAIN docs :
                docs[c].type = kw_comment /\ Contains(t, docs[c].body)

\* C10: a find with term t renders no post for which t is a substring of
\* neither its current body, nor one of its tags, nor the body of one of
\* its comments.
C10_FindRendersOnlyMatchingPosts ==
  /\ FindDone(mem_io) =>
       FindRendersOnlyMatches(BlogDocsMem(in_memory_db, MemFields.blogname),
                              mem_io.stdout, MemFields.search_string)
  /\ FindDone(db_io) =>
       FindRendersOnlyMatches(BlogDocsDb(db_blogs, DbFields.blogname),
                              db_io.stdout, DbFields.search_string)

\* The title with each maximal run of characters outside [0-9a-zA-Z]
\* replaced by one underscore: a character of the class is kept, a character
\* outside it yields an underscore when it starts a run and nothing otherwise.
UnderscoreRuns(title) ==
  Join([i \in 1..Len(title) |->
          IF title[i] \in AlNum THEN <<title[i]>>
          ELSE IF i = 1 \/ title[i - 1] \in AlNum THEN <<"_">>
          ELSE <<>>],
       <<>>)

\* The post a branch has just stored for the fields of its command: the
\* store grew by one post whose permalink is derived from blog and title.
InsertedPost(before, after) ==
  /\ Len(after) = Len(before) + 1
  /\ after[Len(after)].type = kw_post
  /\ after[Len(after)].permalink =
       after[Len(after)].blogname \o <<".">> \o UnderscoreRuns(after[Len(after)].title)

\* out renders every post among docs, the documents of the blog shown.
PostsRendered(docs, out) ==
  \A i \in DOMAIN docs :
    docs[i].type = kw_post => \E k \in DOMAIN out : out[k] = PostBlock(docs[i])

\* C11: a well-formed post command stores a post whose permalink is the blog
\* name, a dot and the title with every run of characters outside
\* [0-9a-zA-Z] replaced by one underscore, and every later show of the blog
\* renders the post.
C11_PostPermalinkDerivedAndShown ==
  /\ MemDid(kw_post) =>
       InsertedPost(BlogDocsMem(mem_io.before, MemFields.doc.blogname),
                    BlogDocsMem(in_memory_db, MemFields.doc.blogname))
  /\ DbDid(kw_post) => InsertedPost(db_io.before, db_blogs)
  /\ ShowDone(mem_io) =>
       PostsRendered(BlogDocsMem(in_memory_db, MemFields.blogname), mem_io.stdout)
  /\ ShowDone(db_io) =>
       PostsRendered(BlogDocsDb(db_blogs, DbFields.blogname), db_io.stdout)

(***************************************************************************)
(* The parsing of post lines, on its own: every post line whose quoted     *)
(* segments hold the contents below is read into an empty store.           *)
(***************************************************************************)

\* Longest user name and title of the post lines read here.
MaxFieldLen == 2

\* The contents of a quoted segment: no double quote, spaces allowed.
FieldChars == {"a", " "}

FieldContents(n) == UNION { [1..k -> FieldChars] : k \in 0..n }

\* Contents of the body and tags segments: empty, and with a space inside.
LongContents == { <<>>, <<"a", " ", "a">> }

QuotedPostLines ==
  { PostLine(Blog0, u, t, b, g, <<"1">>) :
      u \in FieldContents(MaxFieldLen), t \in FieldContents(MaxFieldLen),
      b \in LongContents, g \in LongContents }

\* main reads one of these post lines as the first line of its input.
parse_post ==
  /\ in_memory_db = <<>> /\ db_blogs = <<>>
  /\ \E l \in QuotedPostLines : Step(l)

ParseSpec == Init /\ [][parse_post]_vars

\* The fields a post line with these segment contents must yield.
PostFieldsAre(fields, u, t, b, g, timestamp) ==
  /\ fields.ok
  /\ fields.doc.userName = u
  /\ fields.doc.title = t
  /\ fields.doc.body = b
  /\ IF g = <<>> THEN "tags" \notin DOMAIN fields.doc
                 ELSE fields.doc.tags = <<g>>
  /\ fields.doc.timestamp = timestamp

\* C12: in a post line user, title, body and tags are the contents of the
\* successive double-quoted segments after the blog name, spaces inside a
\* segment included, and timestamp is the trimmed remainder.
C12_PostFieldsAreQuotedSegments ==
  \A u \in FieldContents(MaxFieldLen), t \in FieldContents(MaxFieldLen),
     b \in LongContents, g \in LongContents :
    /\ mem_io.line = PostLine(Blog0, u, t, b, g, <<"1">>)
         => PostFieldsAre(mem_io.fields, u, t, b, g, <<"1">>)
    /\ db_io.line = PostLine(Blog0, u, t, b, g, <<"1">>)
         => PostFieldsAre(db_io.fields, u, t, b, g, <<"1">>)

(***************************************************************************)
(* The order of rendering: posts with equal and with different timestamps, *)
(* comments and replies with equal and with different timestamps, shows    *)
(* and finds, each io record also keeping the shows completed since the    *)
(* last post, comment or delete command.                                   *)
(***************************************************************************)

LinkP == <<"0", ".", "P">>

\* Posts P, Q and R of blog 0; as strings, "10" sorts before "9".
OrderPostLines ==
  { PostLine(Blog0, <<"u">>, t[1], <<"q">>, <<>>, t[2]) :
      t \in { <<<<"P">>, <<"1", "0">>>>, <<<<"Q">>, <<"9">>>>, <<<<"R">>, <<"9">>>> } }

\* Comments <<target, user, timestamp>> on post P and a reply to comment 5.
OrderCommentLines ==
  { CommentLine(Blog0, t[1], t[2], <<"x">>, t[3]) :
      t \in { <<LinkP, <<"a">>, <<"5">>>>,
              <<LinkP, <<"b">>, <<"5">>>>,
              <<LinkP, <<"c">>, <<"1", "0">>>>,
              <<<<"5">>, <<"d">>, <<"6">>>> } }

OrderShowLines == { ShowLine(Blog0), ShowLine(BlogB) }

\* Finds whose term holds the quantifier "*": zero or more "x", which every
\* body matches as a regular expression, and a "*" that quantifies nothing.
OrderFindLines == { FindLine(Blog0, <<"x", "*">>), FindLine(Blog0, <<"*">>) }

\* The shows a branch has completed since the last post, comment or delete
\* command it read, this line included: for each blog shown, the output of
\* the latest one.
Shown(io) ==
  IF io.command \in {kw_post, kw_comment, kw_delete} THEN <<>>
  ELSE IF io.command = kw_show /\ io.fields.ok /\ ~io.crashed
    THEN [b \in DOMAIN io.previous \cup {io.fields.blogname} |->
            IF b = io.fields.blogname THEN io.stdout ELSE io.previous[b]]
  ELSE io.previous

\* io, with the shows the branch had completed before the line.
WithPrevious(io, previous) ==
  [line |-> io.line, command |-> io.command, fields |-> io.fields,
   before |-> io.before, stdout |-> io.stdout, stderr |-> io.stderr,
   crashed |-> io.crashed, previous |-> previous]

\* Init, with no show completed.
OrderInit ==
  /\ current_line = <<>>
  /\ in_memory_db = <<>>
  /\ mem_io = WithPrevious(Io(<<>>, [command |-> <<>>, fields |-> [ok |-> FALSE]],
                              <<>>, Result(<<>>, <<>>, <<>>)), <<>>)
  /\ db_blogs = <<>>
  /\ db_io = WithPrevious(Io(<<>>, [command |-> <<>>, fields |-> [ok |-> FALSE]],
                             <<>>, Result(<<>>, <<>>, <<>>)), <<>>)

\* One iteration of the loop of main on line l, as Step, remembering in each
\* branch the shows completed since the store was last written to.
OrderStep(l) ==
  /\ current_line' = l
  /\ IF mem_io.crashed
       THEN /\ UNCHANGED in_memory_db
            /\ mem_io' = WithPrevious(Ended(in_memory_db), Shown(mem_io))
       ELSE \E r \in {MainMem(l, in_memory_db)} :
              /\ in_memory_db' = r.store
              /\ mem_io' = WithPrevious(Io(l, Parse(l), in_memory_db, r),
                                      Shown(mem_io))
  /\ IF db_io.crashed
       THEN /\ UNCHANGED db_blogs
            /\ db_io' = WithPrevious(Ended(db_blogs), Shown(db_io))
       ELSE \E r \in MainDb(l, db_blogs) :
              /\ db_blogs' = r.store
              /\ db_io' = WithPrevious(Io(l, Parse(l), db_blogs, r), Shown(db_io))

order_post ==
  /\ MemCount < MaxDocs /\ Len(db_blogs) < MaxDocs
  /\ \E l \in OrderPostLines : OrderStep(l)

order_comment ==
  /\ MemCount < MaxDocs /\ Len(db_blogs) < MaxDocs
  /\ \E l \in OrderCommentLines : OrderStep(l)

order_show == \E l \in OrderShowLines : OrderStep(l)

order_find == \E l \in OrderFindLines : OrderStep(l)

OrderNext == order_post \/ order_comment \/ order_show \/ order_find

OrderSpec == OrderInit /\ [][OrderNext]_vars

\* The branch completed a show of a blog it had shown before, with no post,
\* comment or delete command in between.
ShownAgain(io) ==
  /\ ShowDone(io) /\ ~io.crashed
  /\ io.fields.blogname \in DOMAIN io.previous

\* C13: two shows of the same blog with no post, comment or delete command
\* between them print the same output, in both branches, whatever other
\* lines were read in between.
C13_ConsecutiveShowsAgree ==
  /\ ShownAgain(mem_io) => mem_io.stdout = mem_io.previous[mem_io.fields.blogname]
  /\ ShownAgain(db_io) => db_io.stdout = db_io.previous[db_io.fields.blogname]

\* The permalinks in links and those of the ancestors of the documents that
\* bear them: the targets of comments, followed upwards.
RECURSIVE AncestorLinks(_, _)
AncestorLinks(docs, links) ==
  IF { docs[i].parent_permalink :
         i \in { k \in DOMAIN docs : /\ docs[k].type = kw_comment
                                     /\ docs[k].permalink \in links } }
       \subseteq links
    THEN links
    ELSE AncestorLinks(docs,
           links \cup { docs[i].parent_permalink :
                          i \in { k \in DOMAIN docs :
                                    /\ docs[k].type = kw_comment
                                    /\ docs[k].permalink \in links } })

\* No comment of docs bears the permalink of its parent or of an ancestor.
Acyclic(docs) ==
  \A i \in DOMAIN docs :
    docs[i].type = kw_comment
      => docs[i].permalink \notin AncestorLinks(docs, {docs[i].parent_permalink})

\* C14: the reply graph is acyclic in every reachable store: no comment has
\* a permalink equal to its own parent permalink or to an ancestor's.
C14_ReplyGraphAcyclic ==
  /\ \A b \in DOMAIN in_memory_db : Acyclic(in_memory_db[b])
  /\ Acyclic(db_blogs)

UniquePermalinks(docs) ==
  \A i, j \in DOMAIN docs : docs[i].permalink = docs[j].permalink => i = j

\* C15: no two documents of a blog share a permalink, in either branch.
C15_PermalinksUnique ==
  /\ \A b \in DOMAIN in_memory_db : UniquePermalinks(in_memory_db[b])
  /\ \A k \in DOMAIN db_blogs :
       UniquePermalinks(BlogDocsDb(db_blogs, db_blogs[k].blogname))

\* The place of docs[i] when docs is put in descending, or ascending, order
\* of timestamp with equal timestamps left in the order of docs.
RankDescending(docs, i) ==
  Cardinality({ j \in DOMAIN docs :
                  \/ StrLess(docs[i].timestamp, docs[j].timestamp)
                  \/ docs[j].timestamp = docs[i].timestamp /\ j <= i })

RankAscending(docs, i) ==
  Cardinality({ j \in DOMAIN docs :
                  \/ StrLess(docs[j].timestamp, docs[i].timestamp)
                  \/ docs[j].timestamp = docs[i].timestamp /\ j <= i })

PostsOf(docs) == SelectSeq(docs, LAMBDA d : d.type = kw_post)

PostBlocks(out) == SelectSeq(out, LAMBDA b : b.block = "post")

\* blocks renders posts, each once, newest first and, among equal
\* timestamps, in the order of posts.
PostsNewestFirst(posts, blocks) ==
  /\ Len(blocks) = Len(posts)
  /\ \A i \in DOMAIN posts : blocks[RankDescending(posts, i)] = PostBlock(posts[i])

\* The timestamps of blocks never increase.
TimestampsDescend(blocks) ==
  \A k, m \in DOMAIN blocks :
    k < m => ~StrLess(blocks[k].timestamp, blocks[m].timestamp)

ThreadEnd(out, i) ==
  IF \E j \in (i + 1)..Len(out) :
       out[j].block # "comment" \/ out[j].indent <= Depth(out[i])
    THEN CHOOSE j \in (i + 1)..Len(out) :
           /\ out[j].block # "comment" \/ out[j].indent <= Depth(out[i])
           /\ \A k \in (i + 1)..(j - 1) :
                out[k].block = "comment" /\ out[k].indent > Depth(out[i])
    ELSE Len(out) + 1

\* The blocks rendered as direct children of out[i], in order.
ChildBlocks(out, i) ==
  SelectSeq(SubSeq(out, i + 1, ThreadEnd(out, i) - 1),
            LAMBDA b : b.indent = Depth(out[i]) + 1)

\* The comments of docs on permalink, in the order of docs.
CommentsOn(docs, permalink) ==
  SelectSeq(docs, LAMBDA d : d.type = kw_comment /\ d.parent_permalink = permalink)

\* blocks renders group, each comment once, oldest first and, among equal
\* timestamps, in the order of group.
CommentsOldestFirst(group, blocks, indent) ==
  /\ Len(blocks) = Len(group)
  /\ \A k \in DOMAIN group :
       blocks[RankAscending(group, k)] = CommentBlock(group[k], indent)

\* The permalinks of blocks, which are the comments' timestamps, never
\* decrease.
PermalinksAscend(blocks) ==
  \A k, m \in DOMAIN blocks :
    k < m => ~StrLess(blocks[m].permalink, blocks[k].permalink)

C18_ShowAndFindReadOnly ==
  /\ mem_io.command \in {kw_show, kw_find} => in_memory_db = mem_io.before
  /\ db_io.command \in {kw_show, kw_find} => db_blogs = db_io.before

\* A find that names a blog the non-empty store does not hold.
C18_Witness ==
  /\ FindDone(mem_io)
  /\ in_memory_db # <<>>
  /\ MemFields.blogname \notin DOMAIN in_memory_db
  /\ db_blogs # <<>>

\* The branch carried out a post, a comment or a delete, and the blog it
\* named.
Wrote(io) == io.command \in {kw_post, kw_comment, kw_delete} /\ io.fields.ok

NamedBlog(io) ==
  IF io.command = kw_delete THEN io.fields.blogname ELSE io.fields.doc.blogname

\* Every comment of docs is on a document of docs.
ParentsResolve(docs) ==
  \A i \in DOMAIN docs :
    docs[i].type = kw_comment => HasPermalink(docs, docs[i].parent_permalink)

\* What a show of blog b can print with the database.
ShowOutputsDb(b, coll) ==
  { r.stdout : r \in process_show_db([ok |-> TRUE, blogname |-> b], coll) }

\* The blogs the input lines name, other than blogname.
OtherBlogs(blogname) == {Blog0, BlogB} \ {blogname}

\* C19: blogs are isolated: a post, comment or delete that names a blog
\* leaves the documents of every other blog, and what show prints for it, as
\* they were, and every stored comment is on a document of its own blog.
C19_BlogsIsolated ==
  /\ Wrote(mem_io) =>
       \A b \in OtherBlogs(NamedBlog(mem_io)) :
         /\ BlogDocsMem(in_memory_db, b) = BlogDocsMem(mem_io.before, b)
         /\ process_show_mem([ok |-> TRUE, blogname |-> b], in_memory_db).stdout
              = process_show_mem([ok |-> TRUE, blogname |-> b], mem_io.before).stdout
  /\ Wrote(db_io) =>
       \A b \in OtherBlogs(NamedBlog(db_io)) :
         /\ BlogDocsDb(db_blogs, b) = BlogDocsDb(db_io.before, b)
         /\ ShowOutputsDb(b, db_blogs) = ShowOutputsDb(b, db_io.before)
  /\ \A b \in DOMAIN in_memory_db : ParentsResolve(in_memory_db[b])
  /\ \A k \in DOMAIN db_blogs :
       ParentsResolve(BlogDocsDb(db_blogs, db_blogs[k].blogname))

====
